---- MODULE Spec2Model ----
(***************************************************************************)
(* Model of audio/vad_gate.py: the VADGate finite state machine            *)
(* (IDLE -> LISTENING -> ENDING) driven by process_pcm and reset, with the *)
(* schedule-driven FakeVAD classifier and the recording callbacks of       *)
(* tests/test_vad_gate.py.                                                 *)
(*                                                                         *)
(* Representation.                                                         *)
(*  - Time is held in exact integer milliseconds (time_s, Frame.t0,        *)
(*    Frame.duration, Segment.t0/t1 are the source's seconds times 1000);  *)
(*    the 1e-9 tolerance of _end_segment is below this resolution.         *)
(*  - A bytes value is a run-length sequence of half-open intervals        *)
(*    <<lo, hi>> of offsets into the byte stream delivered by the caller,  *)
(*    adjacent intervals merged; so a value with one interval is a         *)
(*    contiguous slice of the stream, and lost or repeated bytes show.     *)
(*  - Optional[float] None is the value None (-1); times are >= 0.         *)
(***************************************************************************)
EXTENDS Integers, Sequences, FiniteSets, TLC

VARIABLES
    sample_rate, frame_ms, pre_roll_ms, silence_duration_ms, \* configuration
    schedule, vad_i,              \* FakeVAD.schedule, FakeVAD.i
    state, time_s, stats,         \* FSM state, clock, diagnostics
    pre_roll, active_frames, tail_silence,
    consec_silence_ms, last_speech_end, leftover,
    woke, events,                 \* what the on_wake / on_ready callbacks recorded
    pc, buf, idx,                 \* position and locals of the process_pcm call
    sent,                         \* bytes of the stream delivered so far
    hist,                         \* history: every frame classified, in order
    resets, at_reset,             \* history: external reset calls, snapshot at the last
    carried,                      \* history: a call started with a non-empty remainder
    faults,                       \* how the injected callbacks and classifier behave
    vad_raised,                   \* the classifier has raised
    errors,                       \* exceptions that reached the caller of process_pcm
    peek,                         \* gate._pre_roll as a re-entering callback saw it
    ctor_error                    \* the exception raised by the constructor, if any

vars == <<sample_rate, frame_ms, pre_roll_ms, silence_duration_ms,
          schedule, vad_i, state, time_s, stats, pre_roll, active_frames,
          tail_silence, consec_silence_ms, last_speech_end, leftover,
          woke, events, pc, buf, idx, sent, hist, resets, at_reset, carried,
          faults, vad_raised, errors, peek, ctor_error>>

config == <<sample_rate, frame_ms, pre_roll_ms, silence_duration_ms, schedule,
            faults, ctor_error>>

\* ------------------------------------------------------------------ bounds
MaxFrames == 6
MaxResets == 1

\* --------------------------------------------------------------- constants
NoGate == "none"      \* the constructor raised: there is no gate
IDLE == "IDLE"
LISTENING == "LISTENING"
ENDING == "ENDING"
None == -1

Max(a, b) == IF a >= b THEN a ELSE b
Min(a, b) == IF a <= b THEN a ELSE b

\* ------------------------------------------------------------------- bytes
RECURSIVE BLen(_)
BLen(b) == IF b = <<>> THEN 0 ELSE (b[1][2] - b[1][1]) + BLen(Tail(b))

BCat(a, b) ==
    IF a = <<>> THEN b
    ELSE IF b = <<>> THEN a
    ELSE IF a[Len(a)][2] = b[1][1]
         THEN SubSeq(a, 1, Len(a) - 1) \o <<<<a[Len(a)][1], b[1][2]>>>> \o Tail(b)
         ELSE a \o b

RECURSIVE BDrop(_, _)
BDrop(b, n) ==
    IF b = <<>> THEN <<>>
    ELSE IF n <= 0 THEN b
    ELSE LET l == b[1][2] - b[1][1] IN
         IF n >= l THEN BDrop(Tail(b), n - l)
         ELSE <<<<b[1][1] + n, b[1][2]>>>> \o Tail(b)

RECURSIVE BTake(_, _)
BTake(b, n) ==
    IF b = <<>> \/ n <= 0 THEN <<>>
    ELSE LET l == b[1][2] - b[1][1] IN
         IF n >= l THEN BCat(<<b[1]>>, BTake(Tail(b), n - l))
         ELSE <<<<b[1][1], b[1][1] + n>>>>

\* b[i:j] for 0 <= i <= j
BSlice(b, i, j) == BTake(BDrop(b, i), j - i)

\* b"".join(parts)
RECURSIVE BJoin(_)
BJoin(parts) == IF parts = <<>> THEN <<>> ELSE BCat(parts[1], BJoin(Tail(parts)))

\* ----------------------------------------------------------- construction
\* a constructor that checks the frame duration only
ValidConfig_any_rate(sr, fm) == fm \in {10, 20, 30}

ValidConfig(sr, fm) == fm \in {10, 20, 30} /\ sr \in {8000, 16000, 32000, 48000}

frame_samples == (sample_rate * frame_ms) \div 1000
frame_bytes == frame_samples * 2
frame_duration == frame_ms
pre_roll_maxlen == Max(1, pre_roll_ms \div frame_ms)

Frame(data, t0, duration) == [data |-> data, t0 |-> t0, duration |-> duration]
Segment(pcm, t0, t1, sr) == [pcm |-> pcm, t0 |-> t0, t1 |-> t1, sample_rate |-> sr]

\* Callbacks that return and a classifier that never raises.
NoFaults == [on_wake |-> "return", on_ready |-> "return", vad_raise_at |-> 0]

ZeroStats == [frames_total |-> 0, frames_speech |-> 0, frames_silence |-> 0,
              wake_ups |-> 0, segments |-> 0, flaps |-> 0]

\* The gate as constructed, with its classifier at call number i and no
\* callback invoked yet.
NewGate(i) ==
    [state |-> IDLE, time_s |-> 0, stats |-> ZeroStats,
     pre_roll |-> <<>>, active_frames |-> <<>>, tail_silence |-> <<>>,
     consec_silence_ms |-> 0, last_speech_end |-> None, leftover |-> <<>>,
     vad_i |-> i, woke |-> 0, events |-> <<>>, hist |-> <<>>,
     faults |-> NoFaults, vad_raised |-> FALSE, peek |-> <<>>, exc |-> FALSE]

\* The gate object, its classifier and its callbacks' records, as one value;
\* exc tells that an exception is propagating out of the code just run.
Self ==
    [state |-> state, time_s |-> time_s, stats |-> stats,
     pre_roll |-> pre_roll, active_frames |-> active_frames,
     tail_silence |-> tail_silence, consec_silence_ms |-> consec_silence_ms,
     last_speech_end |-> last_speech_end, leftover |-> leftover,
     vad_i |-> vad_i, woke |-> woke, events |-> events, hist |-> hist,
     faults |-> faults, vad_raised |-> vad_raised, peek |-> peek, exc |-> FALSE]

Store(w) ==
    /\ state' = w.state
    /\ time_s' = w.time_s
    /\ stats' = w.stats
    /\ pre_roll' = w.pre_roll
    /\ active_frames' = w.active_frames
    /\ tail_silence' = w.tail_silence
    /\ consec_silence_ms' = w.consec_silence_ms
    /\ last_speech_end' = w.last_speech_end
    /\ leftover' = w.leftover
    /\ vad_i' = w.vad_i
    /\ woke' = w.woke
    /\ events' = w.events
    /\ hist' = w.hist
    /\ vad_raised' = w.vad_raised
    /\ peek' = w.peek

\* ------------------------------------------------------------- classifier
\* FakeVAD.is_speech: the schedule entry of this call, the last one once
\* the schedule is exhausted.
is_speech(w) ==
    IF w.vad_i < Len(schedule) THEN schedule[w.vad_i + 1]
    ELSE schedule[Len(schedule)]

\* The classifier raises on its call number vad_raise_at, once.
vad_raises(w) ==
    ~w.vad_raised /\ w.faults.vad_raise_at = w.vad_i + 1

\* ------------------------------------------------------------------ reset
\* reset without self._pre_roll.clear()
reset_keep_pre_roll(w) ==
    [w EXCEPT !.state = IDLE,
              !.active_frames = <<>>,
              !.tail_silence = <<>>,
              !.consec_silence_ms = 0,
              !.last_speech_end = None,
              !.leftover = <<>>]

\* reset that also restarts the diagnostics and the clock
reset_all(w) ==
    [w EXCEPT !.state = IDLE,
              !.pre_roll = <<>>,
              !.active_frames = <<>>,
              !.tail_silence = <<>>,
              !.consec_silence_ms = 0,
              !.last_speech_end = None,
              !.leftover = <<>>,
              !.stats = ZeroStats,
              !.time_s = 0]

\* reset without self._active_frames.clear()
reset_keep_active(w) ==
    [w EXCEPT !.state = IDLE,
              !.pre_roll = <<>>,
              !.tail_silence = <<>>,
              !.consec_silence_ms = 0,
              !.last_speech_end = None,
              !.leftover = <<>>]

reset(w) ==
    [w EXCEPT !.state = IDLE,
              !.pre_roll = <<>>,
              !.active_frames = <<>>,
              !.tail_silence = <<>>,
              !.consec_silence_ms = 0,
              !.last_speech_end = None,
              !.leftover = <<>>]

\* ---------------------------------------------------------------- callbacks
RECURSIVE process_pcm(_, _)

\* The wake callback: counts the call, then returns, raises, or calls the
\* gate's reset.
on_wake(w) ==
    LET w1 == [w EXCEPT !.woke = @ + 1, !.exc = (w.faults.on_wake = "raise")] IN
    IF w.faults.on_wake = "reset" THEN reset(w1) ELSE w1

\* The number of bytes a segment-ready callback hands to process_pcm.
fed(w) ==
    IF w.faults.on_ready = "reenter" THEN frame_bytes
    ELSE IF w.faults.on_ready = "reenter_half" THEN frame_bytes \div 2
    ELSE 0

\* The segment-ready callback: records the segment, then returns, raises, or
\* calls back into the gate with more audio (a frame, or half a frame) and
\* looks at the pre-roll buffer the call left.
on_ready(w, seg) ==
    LET w1 == [w EXCEPT !.events = Append(@, seg)]
        from == (Len(schedule) + Len(w.events)) * frame_bytes
    IN
    IF w.faults.on_ready = "raise" THEN [w1 EXCEPT !.exc = TRUE]
    ELSE IF fed(w) > 0
    THEN LET w2 == process_pcm(w1, <<<<from, from + fed(w)>>>>)
         IN IF w2.exc THEN w2 ELSE [w2 EXCEPT !.peek = w2.pre_roll]
    ELSE w1

\* ------------------------------------------------------------------- gate
\* a deque without maxlen
deque_append_unbounded(d, x, n) == Append(d, x)

\* a full buffer that refuses the new frame instead of evicting the oldest
deque_append_keep_oldest(d, x, n) == IF Len(d) >= n THEN d ELSE Append(d, x)

\* deque(maxlen=n).append
deque_append(d, x, n) ==
    IF Len(d) >= n THEN SubSeq(d, Len(d) - n + 2, Len(d)) \o <<x>>
    ELSE Append(d, x)

\* _wake without the wake_ups increment
wake_uncounted(w) ==
    [on_wake([w EXCEPT !.state = LISTENING]) EXCEPT !.exc = FALSE]

\* _wake that counts the onset twice
wake_count_twice(w) ==
    [on_wake([w EXCEPT !.state = LISTENING, !.stats.wake_ups = @ + 2])
        EXCEPT !.exc = FALSE]

\* _wake without the try/except around the callback
wake_uncaught(w) ==
    on_wake([w EXCEPT !.state = LISTENING, !.stats.wake_ups = @ + 1])

\* _wake: whatever the callback raises is swallowed.
wake(w) ==
    [on_wake([w EXCEPT !.state = LISTENING, !.stats.wake_ups = @ + 1])
        EXCEPT !.exc = FALSE]

\* _add_speech that leaves the continuous-silence counter running
add_speech_keep_silence(w, frame) ==
    [w EXCEPT !.active_frames = (@ \o w.tail_silence) \o <<frame>>,
              !.tail_silence = <<>>,
              !.last_speech_end = frame.t0 + frame.duration]

\* _add_speech that marks the frame's start as the last speech end
add_speech_mark_start(w, frame) ==
    [w EXCEPT !.active_frames = (@ \o w.tail_silence) \o <<frame>>,
              !.tail_silence = <<>>,
              !.last_speech_end = frame.t0,
              !.consec_silence_ms = 0]

\* _add_speech that sets the speech-end marker at the onset only
add_speech_keep_marker(w, frame) ==
    [w EXCEPT !.active_frames = (@ \o w.tail_silence) \o <<frame>>,
              !.tail_silence = <<>>,
              !.last_speech_end = IF @ = None THEN frame.t0 + frame.duration ELSE @,
              !.consec_silence_ms = 0]

\* _add_speech that forgets the buffered tail silence
add_speech_drop_tail(w, frame) ==
    [w EXCEPT !.active_frames = Append(@, frame),
              !.tail_silence = <<>>,
              !.last_speech_end = frame.t0 + frame.duration,
              !.consec_silence_ms = 0]

\* _add_speech that also keeps the frame as pre-roll
add_speech_to_pre_roll(w, frame) ==
    [w EXCEPT !.active_frames = (@ \o w.tail_silence) \o <<frame>>,
              !.tail_silence = <<>>,
              !.last_speech_end = frame.t0 + frame.duration,
              !.consec_silence_ms = 0,
              !.pre_roll = Append(@, frame)]

add_speech(w, frame) ==
    [w EXCEPT !.active_frames = (@ \o w.tail_silence) \o <<frame>>,
              !.tail_silence = <<>>,
              !.last_speech_end = frame.t0 + frame.duration,
              !.consec_silence_ms = 0]

max_tail == Max(1, silence_duration_ms \div frame_ms)

\* _add_silence that discards what the cap pushes out
add_silence_discard(w, frame) ==
    LET tail == Append(w.tail_silence, frame)
        over == Max(0, Len(tail) - max_tail)
    IN [w EXCEPT !.tail_silence = SubSeq(tail, over + 1, Len(tail)),
                 !.consec_silence_ms = @ + frame_ms]

add_silence(w, frame) ==
    LET tail == Append(w.tail_silence, frame)
        over == Max(0, Len(tail) - max_tail)
    IN [w EXCEPT !.tail_silence = SubSeq(tail, over + 1, Len(tail)),
                 !.consec_silence_ms = @ + frame_ms,
                 !.active_frames = @ \o SubSeq(tail, 1, over)]

RECURSIVE DataOf(_)
DataOf(frames) ==
    IF frames = <<>> THEN <<>> ELSE <<frames[1].data>> \o DataOf(Tail(frames))

\* no trimming of the active frames
UpTo_untrimmed(frames, t1) == frames

\* trimming on the frame's start instead of its end
UpTo_by_start(frames, t1) ==
    SelectSeq(frames, LAMBDA fr : fr.t0 <= t1)

UpTo(frames, t1) ==
    SelectSeq(frames, LAMBDA fr : fr.t0 + fr.duration <= t1)

\* _end_segment without the final self.reset()
end_segment_no_reset(w) ==
    LET w1 == [w EXCEPT !.state = ENDING]
        pre == w1.pre_roll
        active == w1.active_frames
        t0 == IF pre # <<>> THEN pre[1].t0
              ELSE IF active # <<>> THEN active[1].t0 ELSE w1.time_s
        t1 == IF w1.last_speech_end # None THEN w1.last_speech_end ELSE w1.time_s
        pcm_parts == DataOf(pre) \o DataOf(UpTo(active, t1))
        segment == Segment(BJoin(pcm_parts), t0, t1, sample_rate)
        w2 == [w1 EXCEPT !.stats.segments = @ + 1]
    IN [on_ready(w2, segment) EXCEPT !.exc = FALSE]

\* _end_segment: whatever the callback raises is swallowed, and the gate is
\* reset after the callback.
end_segment(w) ==
    LET w1 == [w EXCEPT !.state = ENDING]
        pre == w1.pre_roll
        active == w1.active_frames
        t0 == IF pre # <<>> THEN pre[1].t0
              ELSE IF active # <<>> THEN active[1].t0 ELSE w1.time_s
        t1 == IF w1.last_speech_end # None THEN w1.last_speech_end ELSE w1.time_s
        pcm_parts == DataOf(pre) \o DataOf(UpTo(active, t1))
        segment == Segment(BJoin(pcm_parts), t0, t1, sample_rate)
        w2 == [w1 EXCEPT !.stats.segments = @ + 1]
    IN reset([on_ready(w2, segment) EXCEPT !.exc = FALSE])

\* counting that misses the non-speech frames seen while LISTENING
count_frame_idle_silence(w, frame) ==
    LET decision == is_speech(w) IN
    [w EXCEPT !.vad_i = @ + 1,
              !.hist = Append(@, [t0 |-> frame.t0, data |-> frame.data,
                                  decision |-> decision, state |-> w.state]),
              !.stats.frames_total = @ + 1,
              !.stats.frames_speech = IF decision THEN @ + 1 ELSE @,
              !.stats.frames_silence =
                  IF ~decision /\ w.state = IDLE THEN @ + 1 ELSE @]

\* _process_frame, first part: classify the frame and count it.
count_frame(w, frame) ==
    LET decision == is_speech(w) IN
    [w EXCEPT !.vad_i = @ + 1,
              !.hist = Append(@, [t0 |-> frame.t0, data |-> frame.data,
                                  decision |-> decision, state |-> w.state]),
              !.stats.frames_total = @ + 1,
              !.stats.frames_speech = IF decision THEN @ + 1 ELSE @,
              !.stats.frames_silence = IF decision THEN @ ELSE @ + 1]

\* the stop rule met one frame early
stop_reached_early(w) == w.consec_silence_ms + frame_ms >= silence_duration_ms

\* the stop rule with > for >=
stop_reached_strict(w) == w.consec_silence_ms > silence_duration_ms

stop_reached(w) == w.consec_silence_ms >= silence_duration_ms

\* _process_frame, second part: the transition on the state and the decision.
dispatch(w, frame, decision) ==
    IF w.state = IDLE
    THEN IF decision
         THEN LET w1 == wake(w) IN
              IF w1.exc THEN w1 ELSE add_speech(w1, frame)
         ELSE [w EXCEPT !.pre_roll = deque_append(@, frame, pre_roll_maxlen)]
    ELSE IF w.state = LISTENING
    THEN IF decision
         THEN add_speech(w, frame)
         ELSE LET w2 == add_silence(w, frame) IN
              IF stop_reached(w2) THEN end_segment(w2) ELSE w2
    ELSE IF w.state = ENDING
    THEN LET w2 == reset([w EXCEPT !.stats.flaps = @ + 1]) IN
         [w2 EXCEPT !.pre_roll = deque_append(@, frame, pre_roll_maxlen)]
    ELSE w

\* _process_frame that counts the frame before asking the classifier
process_frame_count_first(w, frame) ==
    IF vad_raises(w)
    THEN [w EXCEPT !.exc = TRUE, !.vad_raised = TRUE, !.stats.frames_total = @ + 1]
    ELSE dispatch(count_frame(w, frame), frame, is_speech(w))

\* _process_frame: a classifier that raises ends it before anything is
\* touched.
process_frame(w, frame) ==
    IF vad_raises(w)
    THEN [w EXCEPT !.exc = TRUE, !.vad_raised = TRUE]
    ELSE dispatch(count_frame(w, frame), frame, is_speech(w))

\* the loop with the clock advanced before the frame is built
loop_body_clock_first(w, b, i) ==
    LET chunk == BSlice(b, i, i + frame_bytes)
        w0 == [w EXCEPT !.time_s = @ + frame_duration]
    IN process_frame(w0, Frame(chunk, w0.time_s, frame_duration))

\* One iteration of the loop of process_pcm; an exception leaves it before
\* the clock is advanced.
loop_body(w, b, i) ==
    LET chunk == BSlice(b, i, i + frame_bytes)
        w1 == process_frame(w, Frame(chunk, w.time_s, frame_duration))
    IN IF w1.exc THEN w1 ELSE [w1 EXCEPT !.time_s = @ + frame_duration]

loop_cond(b, i) == i + frame_bytes <= BLen(b)

\* a return that forgets the remainder
loop_exit_drop(w, b, i) == [w EXCEPT !.leftover = <<>>]

loop_exit(w, b, i) == [w EXCEPT !.leftover = BSlice(b, i, BLen(b))]

\* A whole call of process_pcm, start to return or to the exception that
\* ends it.
RECURSIVE run_loop(_, _, _)
run_loop(w, b, i) ==
    IF loop_cond(b, i)
    THEN LET w1 == loop_body(w, b, i) IN
         IF w1.exc THEN w1 ELSE run_loop(w1, b, i + frame_bytes)
    ELSE loop_exit(w, b, i)

process_pcm(w, pcm) == run_loop(w, BCat(w.leftover, pcm), 0)

\* ------------------------------------------------------------ environment
\* The caller's audio source: the next n bytes of the stream.
Pcm(from, n) == IF n = 0 THEN <<>> ELSE <<<<from, from + n>>>>

StreamBytes == Len(schedule) * frame_bytes

ChunkSizes ==
    {n \in {0, frame_bytes \div 2, frame_bytes, frame_bytes + frame_bytes \div 2,
            StreamBytes - sent} : sent + n <= StreamBytes}

RECURSIVE BoolSeqs(_)
BoolSeqs(n) ==
    IF n = 0 THEN {<<>>}
    ELSE {Append(s, b) : s \in BoolSeqs(n - 1), b \in BOOLEAN}

Rep(n, v) == [k \in 1..n |-> v]

Configs ==
    { [sr |-> 8000,  fm |-> 10, pre |-> 20, sd |-> 20],
      [sr |-> 16000, fm |-> 30, pre |-> 0,  sd |-> 45],
      [sr |-> 32000, fm |-> 20, pre |-> 50, sd |-> 0] }

\* tests/test_vad_gate.py
TestConfig == [sr |-> 16000, fm |-> 30, pre |-> 300, sd |-> 700]
UtteranceSchedule == Rep(20, FALSE) \o Rep(12, TRUE) \o Rep(25, FALSE)
BurstSchedule ==
    Rep(10, FALSE) \o <<TRUE>> \o Rep(10, FALSE) \o Rep(15, TRUE) \o Rep(25, FALSE)

\* What the history keeps of the moment of an external reset call.
Snapshot == [time_s |-> time_s, stats |-> stats, vad_i |-> vad_i, sent |-> sent,
             woke |-> woke, events |-> Len(events), state |-> state,
             leftover |-> leftover]

\* VADGate(...): the parameters are validated first, and nothing is built when
\* they are rejected.
Construct(c, s, f) ==
    /\ ctor_error = IF ValidConfig(c.sr, c.fm) THEN "" ELSE "ValueError"
    /\ state = IF ValidConfig(c.sr, c.fm) THEN IDLE ELSE NoGate
    /\ faults = f
    /\ vad_raised = FALSE
    /\ errors = 0
    /\ peek = <<>>
    /\ sample_rate = c.sr
    /\ frame_ms = c.fm
    /\ pre_roll_ms = c.pre
    /\ silence_duration_ms = c.sd
    /\ schedule = s
    /\ vad_i = 0
    /\ time_s = 0
    /\ stats = ZeroStats
    /\ pre_roll = <<>>
    /\ active_frames = <<>>
    /\ tail_silence = <<>>
    /\ consec_silence_ms = 0
    /\ last_speech_end = None
    /\ leftover = <<>>
    /\ woke = 0
    /\ events = <<>>
    /\ pc = "idle"
    /\ buf = <<>>
    /\ idx = 0
    /\ sent = 0
    /\ hist = <<>>
    /\ resets = 0
    /\ at_reset = [time_s |-> 0, stats |-> ZeroStats, vad_i |-> 0, sent |-> 0,
                   woke |-> 0, events |-> 0, state |-> IDLE, leftover |-> <<>>]
    /\ carried = FALSE

Init == \E c \in Configs, s \in BoolSeqs(MaxFrames) : Construct(c, s, NoFaults)

InitFresh ==
    \/ \E c \in Configs, s \in BoolSeqs(MaxFrames) : Construct(c, s, NoFaults)
    \/ \E s \in {UtteranceSchedule, BurstSchedule} :
          Construct(TestConfig, s, NoFaults)

\* The calls of the classifier on which it may raise.
RaiseAt == {1, 2, 4}

\* Callbacks that raise, a callback that calls back into the gate, and a
\* classifier that raises on one of its calls.
FaultSets ==
    {[on_wake |-> a, on_ready |-> b, vad_raise_at |-> 0] :
        a \in {"return", "raise"}, b \in {"return", "raise"}}
    \cup {[on_wake |-> "return", on_ready |-> "reenter", vad_raise_at |-> 0]}
    \cup {[on_wake |-> "return", on_ready |-> "return", vad_raise_at |-> k] :
             k \in RaiseAt}

\* Parameter values on both sides of the constructor's checks.
Grid ==
    [sr : {8000, 11025, 16000, 32000, 44100, 48000}, fm : {10, 15, 20, 25, 30},
     pre : {0, 25, 300}, sd : {700}]

InitFaulty ==
    \/ \E c \in Configs, s \in BoolSeqs(MaxFrames), f \in FaultSets :
          Construct(c, s, f)
    \/ \E c \in Grid : Construct(c, <<FALSE, TRUE, FALSE>>, NoFaults)

\* ----------------------------------------------------------------- actions
\* process_pcm is entered: buf = self._leftover + pcm, idx = 0.
ProcessPcm(n) ==
    /\ ctor_error = ""
    /\ pc = "idle"
    /\ buf' = BCat(leftover, Pcm(sent, n))
    /\ idx' = 0
    /\ pc' = "loop"
    /\ sent' = sent + n
    /\ carried' = (carried \/ (leftover # <<>> /\ n > 0))
    /\ UNCHANGED <<config, vad_i, state, time_s, stats, pre_roll, active_frames,
                   tail_silence, consec_silence_ms, last_speech_end, leftover,
                   woke, events, hist, resets, at_reset, vad_raised, errors,
                   peek>>

\* One iteration of the while loop: a complete frame is cut and processed; an
\* exception raised in it ends the call and reaches the caller.
ProcessFrame ==
    /\ pc = "loop"
    /\ loop_cond(buf, idx)
    /\ LET w == loop_body(Self, buf, idx) IN
        /\ Store(w)
        /\ IF w.exc
           THEN pc' = "idle" /\ buf' = <<>> /\ idx' = 0 /\ errors' = errors + 1
           ELSE pc' = pc /\ buf' = buf /\ idx' = idx + frame_bytes
                /\ errors' = errors
    /\ UNCHANGED <<config, sent, resets, at_reset, carried>>

\* The loop ends: the remainder is kept and the call returns, its locals
\* going out of scope.
Return ==
    /\ pc = "loop"
    /\ ~loop_cond(buf, idx)
    /\ Store(loop_exit(Self, buf, idx))
    /\ pc' = "idle"
    /\ buf' = <<>>
    /\ idx' = 0
    /\ UNCHANGED <<config, sent, resets, at_reset, carried, errors>>

\* The caller calls reset between two calls of process_pcm.
Reset ==
    /\ ctor_error = ""
    /\ pc = "idle"
    /\ resets < MaxResets
    /\ Store(reset(Self))
    /\ resets' = resets + 1
    /\ at_reset' = Snapshot
    /\ UNCHANGED <<config, pc, buf, idx, sent, carried, errors>>

NextFresh ==
    \/ \E n \in ChunkSizes : ProcessPcm(n)
    \/ ProcessFrame
    \/ Return

Next ==
    \/ \E n \in ChunkSizes : ProcessPcm(n)
    \/ ProcessFrame
    \/ Return
    \/ Reset

Spec == Init /\ [][Next]_vars

SpecFresh == InitFresh /\ [][NextFresh]_vars

SpecFaulty == InitFaulty /\ [][NextFresh]_vars

\* Callbacks that use the gate they are called from: a wake callback that
\* resets it, a segment-ready callback that feeds it half a frame.
ReentrySets ==
    {[on_wake |-> "reset", on_ready |-> "return", vad_raise_at |-> 0],
     [on_wake |-> "return", on_ready |-> "reenter_half", vad_raise_at |-> 0]}

InitReentrant ==
    \E c \in Configs, s \in BoolSeqs(MaxFrames), f \in ReentrySets :
        Construct(c, s, f)

SpecReentrant == InitReentrant /\ [][NextFresh]_vars

\* ------------------------------------------------------------------ claims
\* C1: after every processed frame, under any sequence of process_pcm and
\* reset calls and any classifier decisions, frames_total equals
\* frames_speech + frames_silence.
C1_CountersAddUp ==
    stats.frames_total = stats.frames_speech + stats.frames_silence

C1_Witness ==
    /\ resets >= 1
    /\ at_reset.stats.frames_total >= 1
    /\ stats.frames_speech >= 2
    /\ stats.frames_silence >= 2
    /\ stats.segments >= 1

\* A step that takes the gate from IDLE to LISTENING.
Onset == state = IDLE /\ state' = LISTENING

\* C2: wake_ups and the wake callback's count each grow by exactly one on
\* every IDLE->LISTENING step and change on no other step, and the two are
\* equal at all times.
C2_WakeOncePerOnset ==
    /\ [](woke = stats.wake_ups)
    /\ [][IF Onset
          THEN stats'.wake_ups = stats.wake_ups + 1 /\ woke' = woke + 1
          ELSE stats'.wake_ups = stats.wake_ups /\ woke' = woke]_vars

C2_Witness ==
    /\ stats.wake_ups >= 2
    /\ woke >= 2
    /\ resets >= 1
    /\ state = LISTENING

\* The frame about to be processed is a non-speech frame met while LISTENING
\* that brings the continuous-silence counter to silence_duration_ms.
StopFrame ==
    /\ pc = "loop"
    /\ loop_cond(buf, idx)
    /\ state = LISTENING
    /\ ~is_speech(Self)
    /\ consec_silence_ms + frame_ms >= silence_duration_ms

\* C3: the segments counter and the number of segment-ready callback
\* invocations grow by exactly one on every frame at which the gate is
\* LISTENING and continuous silence reaches silence_duration_ms, change on
\* no other step, and are equal at all times.
C3_SegmentOncePerStop ==
    /\ [](Len(events) = stats.segments)
    /\ [][IF StopFrame
          THEN /\ stats'.segments = stats.segments + 1
               /\ Len(events') = Len(events) + 1
          ELSE /\ stats'.segments = stats.segments
               /\ events' = events]_vars

C3_Witness ==
    /\ stats.segments >= 2
    /\ Len(events) >= 2
    /\ silence_duration_ms > frame_ms
    /\ resets >= 1

\* What a caller can observe of a run: the segments handed to the callback,
\* the number of wake notifications, the counters, the state and the clock.
Observed(w) ==
    [events |-> w.events, woke |-> w.woke, stats |-> w.stats,
     state |-> w.state, time_s |-> w.time_s]

\* The same bytes delivered to a new gate in one contiguous call.
Contiguous == process_pcm(NewGate(0), Pcm(0, sent))

\* C4: whenever a call has returned, the emitted segments (bytes, t0, t1),
\* the counters, the state and the clock are those of a new gate given all
\* the bytes delivered so far in one call, however the bytes were split into
\* chunks (empty chunks and chunks ending inside a frame included).
C4_ChunkingInvisible ==
    pc = "idle" => Observed(Self) = Observed(Contiguous)

C4_Witness ==
    /\ pc = "idle"
    /\ carried
    /\ leftover # <<>>
    /\ Len(events) >= 1
    /\ state = LISTENING

\* The decisions of the classifier so far, in order.
Decisions == [i \in 1..Len(hist) |-> hist[i].decision]

RECURSIVE Lead(_, _)
Lead(s, v) == IF s = <<>> \/ s[1] # v THEN 0 ELSE 1 + Lead(Tail(s), v)

LeadSilence == Lead(Decisions, FALSE)
SpeechRun == Lead(SubSeq(Decisions, LeadSilence + 1, Len(hist)), TRUE)
TrailSilence ==
    Lead(SubSeq(Decisions, LeadSilence + SpeechRun + 1, Len(hist)), FALSE)

\* The stream so far is S non-speech frames, P >= 1 speech frames and
\* non-speech frames that reach the stop threshold.
SingleUtterance ==
    /\ LeadSilence + SpeechRun + TrailSilence = Len(hist)
    /\ SpeechRun >= 1
    /\ TrailSilence >= 1
    /\ TrailSilence * frame_ms >= silence_duration_ms

\* C5: on a new gate, S non-speech frames, P >= 1 speech frames and enough
\* non-speech frames to reach the stop threshold give exactly one wake and
\* one segment, with t0 = (S - min(S, C)) frames, t1 = (S + P) frames and
\* (min(S, C) + P) frames of pcm, C being the pre-roll capacity; the test's
\* stream (20, 12, 25 frames of 30 ms, C = 10, stop 700 ms) gives t0 = 300 ms,
\* t1 = 960 ms and 22 frames of pcm.
C5_SingleUtterance ==
    /\ SingleUtterance =>
         /\ woke = 1
         /\ stats.wake_ups = 1
         /\ stats.segments = 1
         /\ Len(events) = 1
         /\ events[1].t0 =
              (LeadSilence - Min(LeadSilence, pre_roll_maxlen)) * frame_duration
         /\ events[1].t1 = (LeadSilence + SpeechRun) * frame_duration
         /\ BLen(events[1].pcm) =
              (Min(LeadSilence, pre_roll_maxlen) + SpeechRun) * frame_bytes
    /\ (schedule = UtteranceSchedule /\ Len(hist) = Len(schedule)) =>
         /\ woke = 1
         /\ Len(events) = 1
         /\ events[1].t0 = 300
         /\ events[1].t1 = 960
         /\ BLen(events[1].pcm) = 22 * 960

C5_Witness ==
    /\ schedule = UtteranceSchedule
    /\ Len(hist) = Len(schedule)
    /\ SingleUtterance
    /\ LeadSilence = 20 /\ SpeechRun = 12 /\ TrailSilence = 25
    /\ pre_roll_maxlen = 10
    /\ Len(events) = 1

\* Frame h of the history lies within the bounds of segment e.
Within(h, e) == e.t0 <= h.t0 /\ h.t0 + frame_duration <= e.t1

\* Frames i < j are speech frames separated only by non-speech frames, fewer
\* than the stop threshold needs.
ShortGap(i, j) ==
    /\ i < j
    /\ hist[i].decision
    /\ hist[j].decision
    /\ \A m \in (i + 1)..(j - 1) : ~hist[m].decision
    /\ (j - i - 1) * frame_ms < silence_duration_ms

\* C6: two speech frames separated by a run of non-speech frames shorter
\* than the stop threshold always fall in the same segment or in none (the
\* utterance is not closed between them); the test's stream of 10, 1, 10,
\* 15, 25 frames (30 ms, stop 700 ms) yields exactly one segment.
C6_ShortGapKeepsUtterance ==
    /\ \A i, j \in 1..Len(hist) :
          ShortGap(i, j) =>
              \A e \in 1..Len(events) :
                  Within(hist[i], events[e]) <=> Within(hist[j], events[e])
    /\ (schedule = BurstSchedule /\ Len(hist) = Len(schedule)) =>
          /\ Len(events) = 1
          /\ stats.segments = 1
          /\ Within(hist[11], events[1])
          /\ Within(hist[36], events[1])

C6_Witness ==
    /\ schedule = BurstSchedule
    /\ Len(hist) = Len(schedule)
    /\ ShortGap(11, 22)
    /\ Len(events) = 1

\* A step that is an external call of reset.
ResetStep == resets' = resets + 1

\* A frame step that finalizes a segment: _end_segment calls reset in ENDING.
FinalizeStep == stats'.segments = stats.segments + 1

\* What reset promises of the gate it leaves.
Cleared(w) ==
    /\ w.state = IDLE
    /\ w.pre_roll = <<>>
    /\ w.active_frames = <<>>
    /\ w.tail_silence = <<>>
    /\ w.consec_silence_ms = 0
    /\ w.last_speech_end = None
    /\ w.leftover = <<>>

\* Frames, times and segments moved back by d milliseconds.
ShiftTime(t, d) == IF t = None THEN None ELSE t - d
ShiftFrames(fs, d) == [k \in 1..Len(fs) |-> [fs[k] EXCEPT !.t0 = @ - d]]
ShiftSegments(es, d) ==
    [k \in 1..Len(es) |-> [es[k] EXCEPT !.t0 = @ - d, !.t1 = @ - d]]

StatNames ==
    {"frames_total", "frames_speech", "frames_silence", "wake_ups", "segments",
     "flaps"}

\* The gate since its last reset, seen from that reset: segments emitted
\* since, counter increments since, clock and frame times relative to it.
SinceReset ==
    [state |-> state,
     pre_roll |-> ShiftFrames(pre_roll, at_reset.time_s),
     active_frames |-> ShiftFrames(active_frames, at_reset.time_s),
     tail_silence |-> ShiftFrames(tail_silence, at_reset.time_s),
     consec_silence_ms |-> consec_silence_ms,
     last_speech_end |-> ShiftTime(last_speech_end, at_reset.time_s),
     leftover |-> leftover,
     time_s |-> time_s - at_reset.time_s,
     stats |-> [k \in StatNames |-> stats[k] - at_reset.stats[k]],
     woke |-> woke - at_reset.woke,
     events |-> ShiftSegments(SubSeq(events, at_reset.events + 1, Len(events)),
                              at_reset.time_s)]

\* A newly constructed gate given, in one call, the bytes delivered since
\* the last reset, its classifier answering as it did for those bytes.
FreshRun ==
    LET w == process_pcm(NewGate(at_reset.vad_i),
                         Pcm(at_reset.sent, sent - at_reset.sent))
    IN [state |-> w.state, pre_roll |-> w.pre_roll,
        active_frames |-> w.active_frames, tail_silence |-> w.tail_silence,
        consec_silence_ms |-> w.consec_silence_ms,
        last_speech_end |-> w.last_speech_end, leftover |-> w.leftover,
        time_s |-> w.time_s, stats |-> w.stats, woke |-> w.woke,
        events |-> w.events]

\* C7: reset, called in IDLE or LISTENING by the caller or in ENDING at the
\* end of a finalization, leaves state IDLE, the three buffers empty, the
\* silence counter 0, the speech-end marker cleared and the remainder
\* discarded; a second reset changes nothing more; and whatever is processed
\* after a reset gives the segments (relative to the clock at the reset), the
\* counter increments and the buffers that a new gate gives on the same bytes.
C7_ResetLikeNew ==
    /\ [][(ResetStep \/ FinalizeStep) => Cleared(Self)']_vars
    /\ [](reset(reset(Self)) = reset(Self))
    /\ []((resets >= 1 /\ pc = "idle") => SinceReset = FreshRun)

C7_Witness ==
    /\ resets >= 1
    /\ pc = "idle"
    /\ at_reset.state = LISTENING
    /\ at_reset.leftover # <<>>
    /\ Len(events) > at_reset.events
    /\ state = LISTENING

\* C8: a reset call leaves the six counters and the clock as they were and
\* invokes neither callback.
C8_ResetKeepsCounters ==
    [][ResetStep => UNCHANGED <<stats, time_s, woke, events>>]_vars

C8_Witness ==
    /\ resets >= 1
    /\ at_reset.time_s > 0
    /\ at_reset.stats.frames_speech >= 1
    /\ at_reset.stats.frames_silence >= 1
    /\ at_reset.stats.wake_ups >= 1
    /\ at_reset.stats.segments >= 1
    /\ at_reset.state = LISTENING
    /\ stats = at_reset.stats

\* C9: every segment handed to the segment-ready callback has t1 > t0.
C9_SegmentHasDuration ==
    \A e \in 1..Len(events) : events[e].t1 > events[e].t0

C9_Witness ==
    /\ resets >= 1
    /\ \E e \in 1..Len(events) :
          /\ events[e].t1 - events[e].t0 = frame_duration
          /\ events[e].t0 >= at_reset.time_s
    /\ \E e \in 1..Len(events) :
          events[e].t1 - events[e].t0 > frame_duration

\* The frames of the stream that start at or after t0 and end at or before
\* t1 of segment e, in stream order.
FramesWithin(e) == SelectSeq(hist, LAMBDA h : Within(h, e))

\* C10: the pcm of every emitted segment is the concatenation, in stream
\* order, of exactly the frames that start at or after its t0 and end at or
\* before its t1, is one contiguous slice of the byte stream, and is
\* ((t1 - t0) / frame_duration) * frame_bytes long.
C10_SegmentIsItsFrames ==
    \A e \in 1..Len(events) :
        /\ events[e].pcm = BJoin(DataOf(FramesWithin(events[e])))
        /\ Len(events[e].pcm) = 1
        /\ BLen(events[e].pcm) =
             ((events[e].t1 - events[e].t0) \div frame_duration) * frame_bytes

C10_Witness ==
    \E e \in 1..Len(events) :
        /\ Len(FramesWithin(events[e])) >= 4
        /\ ~FramesWithin(events[e])[1].decision
        /\ \E k \in 3..(Len(FramesWithin(events[e])) - 1) :
              /\ FramesWithin(events[e])[k - 1].decision
              /\ ~FramesWithin(events[e])[k].decision
        /\ \/ resets = 0
           \/ at_reset.leftover # <<>> /\ events[e].t0 >= at_reset.time_s

\* Two bytes values share a byte of the stream.
Overlap(a, b) ==
    \E i \in 1..Len(a), j \in 1..Len(b) : a[i][1] < b[j][2] /\ b[j][1] < a[i][2]

\* The number of consecutive non-speech frames that reaches the threshold.
Kstop == Max(1, (silence_duration_ms + frame_ms - 1) \div frame_ms)

\* The frames that follow the end of segment e up to the frame that closed it.
StopRun(e) ==
    SelectSeq(hist, LAMBDA h : e.t1 <= h.t0
                               /\ h.t0 < e.t1 + Kstop * frame_duration)

\* C11: the non-speech frames that made the silence counter reach the
\* threshold are in no emitted segment and not in the pre-roll kept for the
\* next one: a segment ends with a speech frame, holds no byte of a frame
\* that starts at or after its t1, and the frames of its stop run share no
\* byte with any segment or with the pre-roll buffer.
C11_StopSilenceExcluded ==
    \A e \in 1..Len(events) :
        /\ \E i \in 1..Len(hist) :
              hist[i].t0 + frame_duration = events[e].t1 /\ hist[i].decision
        /\ Len(StopRun(events[e])) = Kstop
        /\ \A i \in 1..Len(hist) :
              hist[i].t0 >= events[e].t1 =>
                  ~Overlap(hist[i].data, events[e].pcm)
        /\ \A k \in 1..Kstop :
              LET h == StopRun(events[e])[k] IN
              /\ ~h.decision
              /\ \A f \in 1..Len(events) : ~Overlap(h.data, events[f].pcm)
              /\ \A q \in 1..Len(pre_roll) : ~Overlap(h.data, pre_roll[q].data)

C11_Witness ==
    /\ Len(events) >= 1
    /\ silence_duration_ms % frame_ms # 0
    /\ Kstop > max_tail
    /\ pre_roll # <<>>
    /\ resets >= 1

\* C15: segments are emitted once each, in stream order and without overlap:
\* a later segment starts no earlier than the one before it ends, no two
\* segments share a byte, and no frame of the stream has bytes in more than
\* one segment.
C15_SegmentsDisjointInOrder ==
    /\ \A e, f \in 1..Len(events) :
          e < f => /\ events[f].t0 >= events[e].t1
                   /\ ~Overlap(events[e].pcm, events[f].pcm)
    /\ \A i \in 1..Len(hist) :
          Cardinality({e \in 1..Len(events) :
                          Overlap(hist[i].data, events[e].pcm)}) <= 1

C15_Witness ==
    /\ Len(events) >= 2
    /\ events[2].t1 - events[2].t0 >= 2 * frame_duration
    /\ events[1].t1 - events[1].t0 >= 2 * frame_duration
    /\ resets >= 1

\* A step that classifies one frame.
FrameStep == Len(hist') = Len(hist) + 1

\* C16: every frame extracted by process_pcm carries as t0 the clock before
\* it is consumed and advances the clock by exactly one frame duration, and
\* nothing else moves the clock; so between calls the clock is frames_total
\* frame durations, resets included, and frame start times strictly increase.
C16_ClockCountsFrames ==
    /\ [][IF FrameStep
          THEN /\ time_s' = time_s + frame_duration
               /\ hist'[Len(hist')].t0 = time_s
          ELSE time_s' = time_s]_vars
    /\ [](pc = "idle" => time_s = stats.frames_total * frame_duration)
    /\ [](\A i \in 1..(Len(hist) - 1) : hist[i].t0 < hist[i + 1].t0)

C16_Witness ==
    /\ pc = "idle"
    /\ resets >= 1
    /\ at_reset.time_s > 0
    /\ at_reset.leftover # <<>>
    /\ time_s >= at_reset.time_s + 2 * frame_duration

\* C17: with callbacks that do not call back into the gate, the state is
\* IDLE or LISTENING before every frame and after every call, so no frame is
\* processed in ENDING, and flaps stays 0.
C17_NeverEndingBetweenFrames ==
    /\ state \in {IDLE, LISTENING}
    /\ stats.flaps = 0

C17_Witness ==
    /\ stats.segments >= 1
    /\ Len(hist) > (events[1].t1 \div frame_duration) + Kstop
    /\ state = LISTENING
    /\ resets >= 1

\* The index in the history of the last frame before which the pre-roll
\* buffer was emptied: by an external reset or by a finalization.
Boundary ==
    Max(IF resets >= 1 THEN at_reset.vad_i ELSE 0,
        IF events # <<>>
        THEN (events[Len(events)].t1 \div frame_duration) + Kstop ELSE 0)

\* The index of the last frame processed in IDLE.
IdleEnd ==
    IF state = LISTENING THEN active_frames[1].t0 \div frame_duration
    ELSE Len(hist)

Capacity == IF pre_roll_ms < frame_ms THEN 1 ELSE pre_roll_ms \div frame_ms

\* The most recent frames processed in IDLE, at most Capacity of them.
Recent ==
    LET m == Min(Capacity, IdleEnd - Boundary) IN
    [k \in 1..m |-> Frame(hist[IdleEnd - m + k].data, hist[IdleEnd - m + k].t0,
                          frame_duration)]

\* C19: the pre-roll buffer never holds more than max(1, pre_roll_ms div
\* frame_ms) frames, and it holds exactly the most recent frames processed
\* in IDLE since the last reset or finalization, oldest first.
C19_PreRollBounded ==
    /\ Len(pre_roll) <= Capacity
    /\ pre_roll = Recent

C19_Witness ==
    /\ Capacity >= 2
    /\ Len(pre_roll) = Capacity
    /\ IdleEnd - Boundary > Capacity
    /\ Boundary > 0
    /\ state = LISTENING

\* Everything the gate holds and everything its callbacks were given.
Gate(w) ==
    [events |-> w.events, woke |-> w.woke, stats |-> w.stats,
     state |-> w.state, time_s |-> w.time_s, pre_roll |-> w.pre_roll,
     active_frames |-> w.active_frames, tail_silence |-> w.tail_silence,
     consec_silence_ms |-> w.consec_silence_ms,
     last_speech_end |-> w.last_speech_end, leftover |-> w.leftover,
     hist |-> w.hist]

\* The classifier does not raise and the callbacks do not call the gate.
CallbacksOnly ==
    /\ faults.vad_raise_at = 0
    /\ faults.on_wake \in {"return", "raise"}
    /\ faults.on_ready \in {"return", "raise"}

\* C12: a wake or segment-ready callback that raises never reaches the caller
\* of process_pcm, and whenever a call has returned the gate (state, buffers,
\* counters, clock, remainder), the frames it classified and the segments it
\* emitted are those of a gate whose callbacks return, given the same bytes;
\* every complete frame of the bytes delivered has been processed.
C12_CallbackErrorsIsolated ==
    (ctor_error = "" /\ CallbacksOnly) =>
        /\ errors = 0
        /\ pc = "idle" =>
              /\ Gate(Self) = Gate(Contiguous)
              /\ stats.frames_total = sent \div frame_bytes

C12_Witness ==
    /\ faults.on_wake = "raise"
    /\ faults.on_ready = "raise"
    /\ pc = "idle"
    /\ woke >= 2
    /\ Len(events) >= 2
    /\ state = LISTENING
    /\ stats.frames_total = Len(schedule)

\* The next step of the loop is the frame on which the classifier raises.
VadWillRaise == pc = "loop" /\ loop_cond(buf, idx) /\ vad_raises(Self)

\* C13: when the classifier raises on a frame, the exception reaches the
\* caller of process_pcm in that very step (no retry, no decision recorded),
\* and the counters, the state, the three buffers, the silence counter, the
\* speech-end marker, the clock and the callbacks' records are as they were
\* before the frame.
C13_ClassifierErrorPropagates ==
    [][VadWillRaise =>
        /\ errors' = errors + 1
        /\ pc' = "idle"
        /\ UNCHANGED <<stats, state, pre_roll, active_frames, tail_silence,
                       consec_silence_ms, last_speech_end, time_s, hist, vad_i,
                       woke, events>>]_vars

C13_Witness ==
    /\ vad_raised
    /\ errors = 1
    /\ pc = "idle"
    /\ stats.frames_total = faults.vad_raise_at - 1
    /\ state = LISTENING
    /\ pre_roll # <<>>
    /\ tail_silence # <<>>

\* C14: the constructor raises a configuration error exactly when the sample
\* rate is not one of 8000, 16000, 32000, 48000 or the frame duration is not
\* one of 10, 20, 30, and then there is no gate and nothing is ever
\* processed; an accepted gate, before any byte is delivered, is IDLE with
\* zero counters, zero clock, empty buffers and remainder, frame_bytes =
\* sample_rate * frame_ms / 1000 * 2 exactly, and a pre-roll capacity of
\* max(1, pre_roll_ms div frame_ms).
C14_ConstructionValidated ==
    /\ ctor_error \in {"", "ValueError"}
    /\ ctor_error = "ValueError" <=>
          ~(sample_rate \in {8000, 16000, 32000, 48000} /\ frame_ms \in {10, 20, 30})
    /\ ctor_error = "ValueError" =>
          state = NoGate /\ pc = "idle" /\ sent = 0 /\ hist = <<>>
    /\ (ctor_error = "" /\ sent = 0) =>
          /\ state = IDLE
          /\ stats = ZeroStats
          /\ time_s = 0
          /\ pre_roll = <<>> /\ active_frames = <<>> /\ tail_silence = <<>>
          /\ leftover = <<>>
          /\ consec_silence_ms = 0 /\ last_speech_end = None
          /\ frame_bytes * 1000 = sample_rate * frame_ms * 2
          /\ pre_roll_maxlen * frame_ms <= Max(frame_ms, pre_roll_ms)
          /\ (pre_roll_maxlen + 1) * frame_ms > pre_roll_ms
          /\ pre_roll_maxlen >= 1

C14_Witness ==
    /\ ctor_error = "ValueError"
    /\ sample_rate = 48000
    /\ frame_ms = 25
    /\ state = NoGate

\* The step just taken processed a frame while the state was ENDING.
FlapStep == Len(hist') > Len(hist) /\ hist'[Len(hist')].state = ENDING

\* C18: a frame delivered while the state is ENDING (by a segment-ready
\* callback calling process_pcm) adds exactly 1 to flaps, leaves the gate
\* IDLE, reaches the caller as no error, and is in the pre-roll buffer once
\* the finalization that was under way has completed.
C18_FlapFrameKept ==
    [][FlapStep =>
        /\ stats'.flaps = stats.flaps + 1
        /\ state' = IDLE
        /\ errors' = errors
        /\ \E k \in 1..Len(pre_roll') :
              pre_roll'[k].data = hist'[Len(hist')].data]_vars

\* The classification of the frame fr and the state it was received in.
Seen(fr) == CHOOSE h \in {hist[k] : k \in 1..Len(hist)} :
                h.data = fr.data /\ h.t0 = fr.t0

\* The frames of the pre-roll buffer, now and as a callback found it.
Buffered == {pre_roll[k] : k \in 1..Len(pre_roll)} \cup {peek[k] : k \in 1..Len(peek)}

\* C20 as stated: every frame of the pre-roll buffer was classified as
\* non-speech, on every path.
C20_PreRollOnlyNonSpeech ==
    \A fr \in Buffered : ~Seen(fr).decision

\* C20: every frame of the pre-roll buffer was classified as non-speech or
\* was received in ENDING, where the recovery path buffers the frame
\* whatever its classification; the speech frame that wakes the gate is the
\* first active frame and never a pre-roll frame.
C20_PreRollNonSpeechButRecovery ==
    /\ \A fr \in Buffered : ~Seen(fr).decision \/ Seen(fr).state = ENDING
    /\ \A fr \in Buffered : ~(Seen(fr).decision /\ Seen(fr).state = IDLE)
    /\ state = LISTENING =>
          /\ active_frames # <<>>
          /\ Seen(active_frames[1]).decision
          /\ Seen(active_frames[1]).state = IDLE

C20_Witness ==
    /\ \E k \in 1..Len(peek) :
          Seen(peek[k]).decision /\ Seen(peek[k]).state = ENDING
    /\ state = LISTENING
    /\ pre_roll # <<>>

\* The frame processed by the step just taken, as the gate built it.
LastFrame(h) == Frame(h[Len(h)].data, h[Len(h)].t0, frame_duration)

\* Every byte of d is a byte of pcm.
Covers(pcm, d) ==
    \A i \in 1..Len(d) : \E j \in 1..Len(pcm) :
        pcm[j][1] <= d[i][1] /\ d[i][2] <= pcm[j][2]

\* The non-speech frames inside the segment e that come after a speech frame
\* of e: the silence inside the utterance.
InnerSilence(e) ==
    {k \in 1..Len(hist) :
        /\ Within(hist[k], e)
        /\ ~hist[k].decision
        /\ \E g \in 1..(k - 1) : Within(hist[g], e) /\ hist[g].decision}

\* C21: a speech frame received while LISTENING moves all buffered
\* tail-silence frames into the active accumulator, in their order and ahead
\* of the speech frame, empties the tail-silence buffer and zeroes the
\* continuous-silence counter; every non-speech frame inside an utterance has
\* its bytes in the emitted segment.
C21_TailSilenceReabsorbed ==
    /\ [][(FrameStep /\ state = LISTENING /\ hist'[Len(hist')].decision) =>
            /\ active_frames' =
                  (active_frames \o tail_silence) \o <<LastFrame(hist')>>
            /\ tail_silence' = <<>>
            /\ consec_silence_ms' = 0]_vars
    /\ [](\A e \in 1..Len(events) : \A k \in InnerSilence(events[e]) :
            Covers(events[e].pcm, hist[k].data))

C21_Witness ==
    /\ Len(events) = 1
    /\ Cardinality(InnerSilence(events[1])) >= 2
    /\ state = IDLE

TailCap ==
    IF silence_duration_ms < frame_ms THEN 1 ELSE silence_duration_ms \div frame_ms

\* The frames processed from the onset frame of the open utterance on.
UtteranceRun ==
    LET first == (active_frames[1].t0 \div frame_duration) + 1 IN
    [k \in 1..(Len(hist) - first + 1) |->
        Frame(hist[first + k - 1].data, hist[first + k - 1].t0, frame_duration)]

\* The frame the loop is about to cut.
NextFrame == Frame(BSlice(buf, idx, idx + frame_bytes), time_s, frame_duration)

\* The next step is a non-speech frame received while LISTENING.
SilenceWhileListening ==
    pc = "loop" /\ loop_cond(buf, idx) /\ state = LISTENING /\ ~is_speech(Self)

\* C22: the tail-silence buffer never holds more than max(1,
\* silence_duration_ms div frame_ms) frames; buffering a non-speech frame
\* keeps every frame, the ones the cap pushes out going to the end of the
\* active accumulator; and while LISTENING the active accumulator followed
\* by the tail-silence buffer is the run of frames from the onset frame to
\* the last frame processed, in order.
C22_TailCapped ==
    /\ Len(tail_silence) <= TailCap
    /\ state = LISTENING =>
          active_frames # <<>> /\ active_frames \o tail_silence = UtteranceRun
    /\ SilenceWhileListening =>
          LET w == add_silence(Self, NextFrame) IN
          /\ Len(w.tail_silence) <= TailCap
          /\ w.active_frames \o w.tail_silence =
                (active_frames \o tail_silence) \o <<NextFrame>>

\* A non-speech frame is about to overflow the cap, in a second utterance.
C22_Witness ==
    /\ SilenceWhileListening
    /\ Len(tail_silence) = TailCap
    /\ Len(events) >= 1
    /\ resets >= 1

\* The end times of the speech-classified frames of the open utterance.
SpeechEnds ==
    {hist[k].t0 + frame_duration : k \in
        {i \in 1..Len(hist) : hist[i].decision /\ hist[i].t0 >= active_frames[1].t0}}

\* C23: while LISTENING the speech-end marker is the end time of the most
\* recent speech frame of the open utterance; it never decreases while the
\* gate stays LISTENING and buffering a non-speech frame leaves it alone,
\* also when the cap moves tail-silence frames into the active accumulator;
\* the t1 of an emitted segment is at or after the end of every speech frame
\* whose bytes are in the segment.
C23_MarkerIsLastSpeechEnd ==
    /\ [](state = LISTENING =>
            /\ last_speech_end \in SpeechEnds
            /\ \A t \in SpeechEnds : t <= last_speech_end)
    /\ [][(state = LISTENING /\ state' = LISTENING) =>
            last_speech_end' >= last_speech_end]_vars
    /\ [](SilenceWhileListening =>
            add_silence(Self, NextFrame).last_speech_end = last_speech_end)
    /\ [](\A e \in 1..Len(events) : \A k \in 1..Len(hist) :
            (hist[k].decision /\ Covers(events[e].pcm, hist[k].data)) =>
                hist[k].t0 + frame_duration <= events[e].t1)

C23_Witness ==
    /\ state = LISTENING
    /\ tail_silence # <<>>
    /\ last_speech_end >= active_frames[1].t0 + 3 * frame_duration
    /\ pre_roll # <<>>
    /\ resets >= 1

\* The number of non-speech frames processed since the most recent speech
\* frame.
RECURSIVE Trailing(_)
Trailing(d) ==
    IF d = <<>> \/ d[Len(d)] THEN 0 ELSE 1 + Trailing(SubSeq(d, 1, Len(d) - 1))

\* The step just taken processed a non-speech frame received while LISTENING.
SilenceStep == FrameStep /\ state = LISTENING /\ ~hist'[Len(hist')].decision

\* C24: while LISTENING the continuous-silence counter is frame_ms times the
\* number of non-speech frames since the most recent speech frame, and that
\* number is below k = max(1, ceil(silence_duration_ms / frame_ms)); the
\* non-speech frame that makes it k emits one segment and leaves the gate
\* IDLE, any other non-speech frame leaves it LISTENING with nothing
\* emitted; and a segment is emitted by no other step.
C24_StopOnKthSilentFrame ==
    /\ [](state = LISTENING =>
            /\ consec_silence_ms = frame_ms * Trailing(Decisions)
            /\ Trailing(Decisions) < Kstop)
    /\ [][SilenceStep =>
            IF Trailing(Decisions) + 1 = Kstop
            THEN /\ Len(events') = Len(events) + 1
                 /\ stats'.segments = stats.segments + 1
                 /\ state' = IDLE
            ELSE /\ events' = events
                 /\ stats'.segments = stats.segments
                 /\ state' = LISTENING]_vars
    /\ [][events' # events =>
            SilenceStep /\ Trailing(Decisions) + 1 = Kstop]_vars

C24_Witness ==
    /\ Len(events) >= 1
    /\ Kstop >= 2
    /\ state = LISTENING
    /\ consec_silence_ms > 0
    /\ resets >= 1

\* The bytes handed to process_pcm so far, by the caller and by the
\* segment-ready callback.
Delivered == sent + Len(events) * fed(Self)

\* C25: whenever a call of process_pcm has returned normally the remainder is
\* shorter than a frame, and the bytes delivered since construction are
\* frame_bytes times the frames extracted plus the remainder; a
\* finalization or an ENDING recovery in the middle of a chunk leaves the
\* unprocessed bytes of the chunk to the rest of the call.
C25_BytesAccounted ==
    /\ [](pc = "idle" =>
            /\ BLen(leftover) < frame_bytes
            /\ Delivered = frame_bytes * stats.frames_total + BLen(leftover))
    /\ [][(pc = "loop" /\ pc' = "loop") => buf' = buf]_vars
    /\ [][(pc = "loop" /\ pc' = "idle") =>
            leftover' = BSlice(buf, idx, BLen(buf))]_vars

\* C26: when the classifier raises in the middle of a call, the remainder
\* kept holds no byte of a frame already consumed, and no later frame is
\* built from a byte that an earlier frame consumed.
C26_RemainderConsistentAfterRaise ==
    faults.vad_raise_at > 0 =>
        /\ pc = "idle" =>
              \A k \in 1..Len(hist) : ~Overlap(hist[k].data, leftover)
        /\ \A i, j \in 1..Len(hist) :
              i < j => ~Overlap(hist[i].data, hist[j].data)

\* C27: segments never exceeds wake_ups; as long as the caller has not called
\* reset, the gate is LISTENING with one onset more than segments, or IDLE
\* with as many.
C27_SegmentsFollowWakeUps ==
    /\ stats.segments <= stats.wake_ups
    /\ resets = 0 =>
          \/ state = LISTENING /\ stats.wake_ups = stats.segments + 1
          \/ state = IDLE /\ stats.wake_ups = stats.segments

\* An utterance was cut by a reset and a later one was emitted.
C27_Witness ==
    /\ resets >= 1
    /\ at_reset.state = LISTENING
    /\ stats.segments >= 1
    /\ stats.wake_ups = stats.segments + 1
    /\ state = IDLE

\* C28: between frames the buffers agree with the state. IDLE: no active
\* frame, no tail silence, silence counter 0, speech-end marker unset.
\* LISTENING: the active accumulator starts with a speech frame, the marker
\* is set, and the tail-silence buffer holds consec_silence_ms / frame_ms
\* frames, all non-speech. For every sequence of process_pcm and reset
\* calls, a reset called by the wake callback included.
C28_BuffersAgreeWithState ==
    /\ state = IDLE =>
          /\ active_frames = <<>>
          /\ tail_silence = <<>>
          /\ consec_silence_ms = 0
          /\ last_speech_end = None
    /\ state = LISTENING =>
          /\ active_frames # <<>>
          /\ Seen(active_frames[1]).decision
          /\ last_speech_end # None
          /\ Len(tail_silence) * frame_ms = consec_silence_ms
          /\ \A k \in 1..Len(tail_silence) : ~Seen(tail_silence[k]).decision
====
